---- MODULE Spec2Model ----
(***************************************************************************)
(* A model of examples/describe_cg.py: the driver that describes a list of *)
(* coarse-grained RNA structures and stores the result as a csv.           *)
(*                                                                         *)
(* Strings that the script parses (--keys, --distances, --angles) are      *)
(* sequences of tokens, the separators "," and ":" being tokens of their   *)
(* own; a parsed field is the sequence of tokens between two separators,   *)
(* and the field <<c>> is the string c.  An optional command line argument *)
(* is <<>> when it was not given and <<v>> when it was given as v.         *)
(* A structural element is <<kind, number>>, so that x[1] is the kind      *)
(* letter the script reads as x[0].                                        *)
(***************************************************************************)
EXTENDS Integers, Sequences, FiniteSets, TLC

VARIABLES
    run,          \* ordinal of the current invocation of the script
    fs,           \* the file at the --csv path: [exists, lines]
    fs0,          \* history: fs when the current invocation started
    printed,      \* what the current invocation printed to stdout
    args,         \* the parsed command line
    cgs,          \* the structures loaded by cgs_from_args
    dist_pairs,   \* module global dist_pairs
    angle_pairs,  \* module global angle_pairs
    pc,           \* position of the script
    i,            \* enumerate index of the driver loop (file_num = i + 1)
    data,         \* the accumulating table, column name -> list
    row,          \* the dict `data` local to describe_rna
    log,          \* the records handed to the logger
    exc,          \* the exception in flight, "None" when there is none
    visited,      \* history: positions this invocation has been at
    prev          \* history: how the previous invocation ended

vars == <<run, fs, fs0, printed, args, cgs, dist_pairs, angle_pairs, pc, i,
          data, row, log, exc, visited, prev>>

(* Bounds of the model. *)
MaxCgs == 2
MaxRuns == 2

-----------------------------------------------------------------------------
(* Python helpers *)

\* `if args.x:` for an optional string: given and not the empty string.
Truthy(opt) == opt # <<>> /\ opt[1] # ""

\* the same for an argument the script goes on to split: not the empty
\* sequence of tokens
TruthyTokens(opt) == opt # <<>> /\ opt[1] # <<>>

EmptyDict == [c \in {} |-> <<>>]

\* defaultdict(list): d[k].append(v)
DictAppend(d, k, v) ==
    [c \in DOMAIN d \cup {k} |->
        IF c = k THEN Append(IF k \in DOMAIN d THEN d[k] ELSE <<>>, v)
        ELSE d[c]]

\* plain dict: d[k] = v
DictSet(d, k, v) == [c \in DOMAIN d \cup {k} |-> IF c = k THEN v ELSE d[c]]

Range(s) == {s[k] : k \in DOMAIN s}

\* str.split(sep)
RECURSIVE Split(_, _)
Split(s, sep) ==
    IF \A k \in DOMAIN s : s[k] # sep THEN <<s>>
    ELSE LET k == CHOOSE k \in DOMAIN s :
                      s[k] = sep /\ \A j \in 1..(k - 1) : s[j] # sep
         IN <<SubSeq(s, 1, k - 1)>> \o Split(SubSeq(s, k + 1, Len(s)), sep)

\* the ordinal suffix of the log messages
Ordinal(file_num) ==
    LET key == (file_num % 10) * (IF file_num % 100 \notin {11, 12, 13} THEN 1 ELSE 0)
    IN CASE key = 1 -> "st" [] key = 2 -> "nd" [] key = 3 -> "rd" [] OTHER -> "th"

-----------------------------------------------------------------------------
(* The structures the runs are given.  What the forgi library computes for *)
(* a structure is part of the structure's record.                          *)

Seg(kind, n, length, angle_type, s1, s2) ==
    [elem |-> <<kind, n>>, length |-> length, angle_type |-> angle_type,
     conn |-> <<s1, s2>>]

\* a hairpin: no multiloop at all
CgHairpin ==
    [name |-> "hairpin", file |-> "hairpin.cg", seq_length |-> 12,
     defines |-> {<<"f", 0>>, <<"s", 0>>, <<"h", 0>>, <<"t", 0>>},
     mls |-> <<>>, has3d |-> TRUE]

\* a regular three-way junction and an exterior loop with one m segment
CgJunction ==
    [name |-> "junction", file |-> "junction.pdb", seq_length |-> 40,
     defines |-> {<<"f", 0>>, <<"s", 0>>, <<"s", 1>>, <<"s", 2>>, <<"s", 3>>,
                  <<"m", 0>>, <<"m", 1>>, <<"m", 2>>, <<"m", 3>>,
                  <<"h", 0>>, <<"h", 1>>, <<"i", 0>>, <<"t", 0>>},
     mls |-> << [segs |-> << Seg("m", 0, 2, 3, <<"s", 0>>, <<"s", 1>>),
                             Seg("m", 1, 0, -4, <<"s", 1>>, <<"s", 2>>),
                             Seg("m", 2, 5, -2, <<"s", 0>>, <<"s", 2>>) >>,
                 desc |-> <<"regular_multiloop">>],
                [segs |-> << Seg("f", 0, 1, 0, <<"s", 0>>, <<"s", 0>>),
                             Seg("m", 3, 4, -6, <<"s", 0>>, <<"s", 3>>),
                             Seg("t", 0, 2, 0, <<"s", 3>>, <<"s", 3>>) >>,
                 desc |-> <<"open">>] >>,
     has3d |-> TRUE]

\* a pseudoknotted four-segment loop in a structure without 3D coordinates
CgKnot ==
    [name |-> "knot", file |-> "knot.fx", seq_length |-> 30,
     defines |-> {<<"s", 0>>, <<"s", 1>>, <<"m", 0>>, <<"m", 1>>,
                  <<"m", 2>>, <<"m", 3>>, <<"h", 0>>},
     mls |-> << [segs |-> << Seg("m", 0, 1, 1, <<"s", 0>>, <<"s", 1>>),
                             Seg("m", 1, 1, 5, <<"s", 0>>, <<"s", 1>>),
                             Seg("m", 2, 2, -1, <<"s", 0>>, <<"s", 1>>),
                             Seg("m", 3, 0, -5, <<"s", 0>>, <<"s", 1>>) >>,
                 desc |-> <<"pseudoknot">>] >>,
     has3d |-> FALSE]

\* an exterior loop made of the two unpaired ends only: no m segment
CgEnds ==
    [name |-> "ends", file |-> "ends.cg", seq_length |-> 9,
     defines |-> {<<"f", 0>>, <<"s", 0>>, <<"h", 0>>, <<"t", 0>>},
     mls |-> << [segs |-> << Seg("f", 0, 2, 0, <<"s", 0>>, <<"s", 0>>),
                             Seg("t", 0, 3, 0, <<"s", 0>>, <<"s", 0>>) >>,
                 desc |-> <<"open">>] >>,
     has3d |-> FALSE]

CgPool == {CgHairpin, CgJunction, CgKnot, CgEnds}

CgLists(pool, n) == UNION {[1..k -> pool] : k \in 1..n}

\* the inputs of the repeated runs
RunInputs == {<<CgJunction>>, <<CgHairpin, CgKnot>>, <<CgEnds, CgJunction>>}

ModeArgs == {<<>>, <<"">>, <<"a">>, <<"o">>, <<"x">>}
CsvArgs == {<<>>, <<"out.csv">>}
KeysArgs == {<<>>, << <<"segment", ",", "is_regular_multiloop">> >>,
             << <<"filename", ",", "nosuch">> >>}
DistArgs == {<<>>, << <<"1", ",", "20", ":", "2", ",", "19">> >>}
AngleArgs == {<<>>, << <<"s0", ",", "s1">> >>}

NoArgs == [per_ml |-> FALSE, mode |-> <<>>, csv |-> <<>>, keys |-> <<>>,
           distances |-> <<>>, angles |-> <<>>]

\* a file left at the --csv path by something else
OldFile == [exists |-> TRUE,
            lines |-> << [kind |-> "header", cols |-> {"name", "old"},
                          cells |-> [c \in {} |-> <<>>]] >>]
NoFile == [exists |-> FALSE, lines |-> <<>>]

NoPrev == [ok |-> FALSE, mode |-> <<>>, table |-> EmptyDict]

-----------------------------------------------------------------------------
(* describe_ml_segments *)

\* What describe_multiloop returns is a list of descriptors, as describe_rna
\* reads it: "open", "pseudoknot" and "regular_multiloop", none of which is
\* part of another, so that `w in d` for a descriptor d is d = w.

\* The assignments of one pass of the inner loop for an m segment.
SegmentColumns(cg, loop, seg, d) ==
    LET d1 == DictAppend(d, "segment", seg.elem)
        d2 == DictAppend(d1, "junction_length", Len(loop.segs))
        d3 == DictAppend(d2, "segment_length", seg.length)
        d4 == DictAppend(d3, "angle_type",
                         IF seg.angle_type < 0 THEN -seg.angle_type
                         ELSE seg.angle_type)
        d5 == DictAppend(d4, "angle_between_stems",
                         <<"vec_angle", seg.conn[1], seg.conn[2]>>)
        d6 == DictAppend(d5, "junction_va_distance", <<"va_distance", seg.elem>>)
        d7 == DictAppend(d6, "is_external_multiloop", "open" \in Range(loop.desc))
        d8 == DictAppend(d7, "is_pseudoknotted_multiloop", "pseudoknot" \in Range(loop.desc))
    IN DictAppend(d8, "is_regular_multiloop", "regular_multiloop" \in Range(loop.desc))

\* LoopSegments without the test of the segment's kind
RECURSIVE LoopSegmentsEveryKind(_, _, _, _)
LoopSegmentsEveryKind(cg, loop, k, r) ==
    IF k > Len(loop.segs) \/ r.raised # "None" THEN r
    ELSE IF ~cg.has3d
         THEN [r EXCEPT !.raised = "RnaMissing3dError"]
         ELSE LoopSegmentsEveryKind(cg, loop, k + 1,
                  [r EXCEPT !.data = SegmentColumns(cg, loop, loop.segs[k], r.data)])

\* for segment in loop: r is [raised, data]
RECURSIVE LoopSegments(_, _, _, _)
LoopSegments(cg, loop, k, r) ==
    IF k > Len(loop.segs) \/ r.raised # "None" THEN r
    ELSE LET seg == loop.segs[k] IN
         IF seg.elem[1] # "m" THEN LoopSegments(cg, loop, k + 1, r)
         ELSE IF ~cg.has3d
              THEN [r EXCEPT !.raised = "RnaMissing3dError"]
              ELSE LoopSegments(cg, loop, k + 1,
                       [r EXCEPT !.data = SegmentColumns(cg, loop, seg, r.data)])

\* for loop in loops
RECURSIVE Loops(_, _, _)
Loops(cg, l, r) ==
    IF l > Len(cg.mls) \/ r.raised # "None" THEN r
    ELSE Loops(cg, l + 1, LoopSegments(cg, cg.mls[l], 1, r))

describe_ml_segments(cg) == Loops(cg, 1, [raised |-> "None", data |-> EmptyDict])

\* AppendSegmentRows with the key columns appended once for the structure
\* instead of once for each row
RECURSIVE AppendSegmentRowsKeyOnce(_, _, _, _)
AppendSegmentRowsKeyOnce(d, key, new_data, r) ==
    LET n == IF "segment" \in DOMAIN new_data THEN Len(new_data["segment"]) ELSE 0
        d1 == IF r > 1 THEN d
              ELSE [c \in DOMAIN d \cup DOMAIN key |->
                      IF c \in DOMAIN key
                      THEN Append(IF c \in DOMAIN d THEN d[c] ELSE <<>>, key[c])
                      ELSE d[c]]
        d2 == [c \in DOMAIN d1 \cup DOMAIN new_data |->
                  IF c \in DOMAIN new_data
                  THEN Append(IF c \in DOMAIN d1 THEN d1[c] ELSE <<>>, new_data[c][r])
                  ELSE d1[c]]
    IN IF r > n THEN d ELSE AppendSegmentRowsKeyOnce(d2, key, new_data, r + 1)

\* The driver's rows for one structure in per-segment mode: reading
\* new_data["segment"] makes the column when there is none.
RECURSIVE AppendSegmentRows(_, _, _, _)
AppendSegmentRows(d, key, new_data, r) ==
    LET n == IF "segment" \in DOMAIN new_data THEN Len(new_data["segment"]) ELSE 0
        d1 == [c \in DOMAIN d \cup DOMAIN key |->
                  IF c \in DOMAIN key
                  THEN Append(IF c \in DOMAIN d THEN d[c] ELSE <<>>, key[c])
                  ELSE d[c]]
        d2 == [c \in DOMAIN d1 \cup DOMAIN new_data |->
                  IF c \in DOMAIN new_data
                  THEN Append(IF c \in DOMAIN d1 THEN d1[c] ELSE <<>>, new_data[c][r])
                  ELSE d1[c]]
    IN IF r > n THEN d ELSE AppendSegmentRows(d2, key, new_data, r + 1)

-----------------------------------------------------------------------------
(* describe_rna *)

\* Letters with the hairpins left out
LettersNoHairpin == <<"s", "m", "i", "f", "t">>

Letters == <<"s", "m", "i", "f", "t", "h">>

\* "num_" + letter
NumKey(letter) ==
    CASE letter = "s" -> "num_s" [] letter = "m" -> "num_m"
      [] letter = "i" -> "num_i" [] letter = "f" -> "num_f"
      [] letter = "t" -> "num_t" [] letter = "h" -> "num_h"

RECURSIVE CountLetters(_, _, _)
CountLetters(cg, k, d) ==
    IF k > Len(Letters) THEN d
    ELSE CountLetters(cg, k + 1,
             DictSet(d, NumKey(Letters[k]),
                     Cardinality({x \in cg.defines : x[1] = Letters[k]})))

\* lines 41-45
ElementCounts(cg) ==
    CountLetters(cg, 1,
        DictSet(DictSet(EmptyDict, "nt_length", cg.seq_length),
                "num_cg_elems", Cardinality(cg.defines)))

\* lines 46-65: descriptors is what the last multiloop left in it
IsOpen(d) == d = "open"
IsPseudoknot(d) == d = "pseudoknot"
IsRegular(d) == d = "regular_multiloop"

Multiloops(cg, d) ==
    LET n == Len(cg.mls)
        regular(k) == IsRegular(cg.mls[k].desc[Len(cg.mls[k].desc)])
        junct3 == Cardinality({k \in 1..n : regular(k) /\ Len(cg.mls[k].segs) = 3})
        junct4 == Cardinality({k \in 1..n : regular(k) /\ Len(cg.mls[k].segs) = 4})
        descriptors == IF n = 0 THEN <<>> ELSE cg.mls[n].desc
        d1 == DictSet(d, "3-way-junctions", junct3)
        d2 == DictSet(d1, "4-way-junctions", junct4)
        d3 == DictSet(d2, "open_mls", Len(SelectSeq(descriptors, IsOpen)))
        d4 == DictSet(d3, "pseudoknots", Len(SelectSeq(descriptors, IsPseudoknot)))
        d5 == DictSet(d4, "regular_mls", Len(SelectSeq(descriptors, IsRegular)))
    IN IF \E k \in 1..n : cg.mls[k].desc = <<>>
       THEN [raised |-> "IndexError", data |-> d]
       ELSE [raised |-> "None", data |-> DictSet(d5, "total_mls", n)]

\* lines 66-69: the name mmax is bound nowhere in the module, so that
\* evaluating it raises NameError before any length is taken, and NameError
\* is no ValueError.
LongestMl(cg, d) == [raised |-> "NameError", data |-> d]

-----------------------------------------------------------------------------
(* The output stage *)

\* KeyFilter without the name column added to the allowed keys
KeyFilterListedOnly(d, keys) ==
    LET allowed_keys == Split(keys, ",")
    IN [c \in {k \in DOMAIN d : <<k>> \in Range(allowed_keys)} |-> d[c]]

\* the filter of lines 170-174
KeyFilter(d, keys) ==
    LET allowed_keys == Split(keys, ",") \o << <<"name">> >>
    IN [c \in {k \in DOMAIN d : <<k>> \in Range(allowed_keys)} |-> d[c]]

\* pd.DataFrame(data) wants columns of one length, set_index a column "name"
FrameError(d) ==
    IF \E a, b \in DOMAIN d : Len(d[a]) # Len(d[b]) THEN "ValueError"
    ELSE IF "name" \notin DOMAIN d THEN "KeyError"
    ELSE "None"

\* the text of a frame: a header line and a line for each row
Header(d) == [kind |-> "header", cols |-> DOMAIN d, cells |-> EmptyDict]
Rows(d) ==
    [r \in 1..Len(d["name"]) |->
        [kind |-> "row", cols |-> DOMAIN d, cells |-> [c \in DOMAIN d |-> d[c][r]]]]
FrameLines(d) == <<Header(d)>> \o Rows(d)

\* ToCsv that appends whatever the mode
ToCsvAlwaysAppend(file, d, mode) ==
    [exists |-> TRUE, lines |-> file.lines \o FrameLines(d)]

\* df.to_csv(path) and df.to_csv(path, mode='a')
ToCsv(file, d, mode) ==
    [exists |-> TRUE,
     lines |-> IF mode = "a" THEN file.lines \o FrameLines(d) ELSE FrameLines(d)]

\* lines 177-185: what the csv branch does to the file, and what it raises
CsvOutcome(file, d, mode) ==
    IF ~Truthy(mode) /\ file.exists
    THEN [raised |-> "RuntimeError", file |-> file]
    ELSE IF ~Truthy(mode) \/ mode = <<"o">>
         THEN [raised |-> "None", file |-> ToCsv(file, d, "w")]
         ELSE IF mode = <<"a">>
              THEN [raised |-> "None", file |-> ToCsv(file, d, "a")]
              ELSE [raised |-> "ValueError", file |-> file]

-----------------------------------------------------------------------------
(* The script *)

Goto(p) == pc' = p /\ visited' = visited \cup {p}

Init ==
    /\ run = 1
    /\ fs \in {NoFile, OldFile}
    /\ fs0 = fs
    /\ printed = <<>>
    /\ args = NoArgs
    /\ cgs = <<>>
    /\ dist_pairs = <<>>
    /\ angle_pairs = <<>>
    /\ pc = "parse"
    /\ i = 0
    /\ data = EmptyDict
    /\ row = EmptyDict
    /\ log = <<>>
    /\ exc = "None"
    /\ visited = {"parse"}
    /\ prev = NoPrev

\* lines 133-135: the command line and the structures are the run's inputs
ParseArgs(modes, keys, dists, angs, lists) ==
    /\ pc = "parse"
    /\ \E per_ml \in BOOLEAN, mode \in modes, csv \in CsvArgs, k \in keys,
          d \in dists, a \in angs :
          args' = [per_ml |-> per_ml, mode |-> mode, csv |-> csv, keys |-> k,
                   distances |-> d, angles |-> a]
    /\ cgs' \in lists
    /\ data' = EmptyDict
    /\ Goto("pairs")
    /\ UNCHANGED <<run, fs, fs0, printed, dist_pairs, angle_pairs, i, row, log,
                   exc, prev>>

\* lines 137-147
PairList(arg) ==
    IF TruthyTokens(arg)
    THEN LET pairs == Split(arg[1], ":")
         IN [k \in DOMAIN pairs |-> Split(pairs[k], ",")]
    ELSE <<>>

ParsePairs ==
    /\ pc = "pairs"
    /\ dist_pairs' = PairList(args.distances)
    /\ angle_pairs' = PairList(args.angles)
    /\ Goto("loop")
    /\ UNCHANGED <<run, fs, fs0, printed, args, cgs, i, data, row, log, exc, prev>>

LogRecord(level, file_num, name) ==
    [level |-> level, file_num |-> file_num, suffix |-> Ordinal(file_num),
     name |-> name]

\* lines 148-152: the next structure, or the end of the loop
Loop ==
    /\ pc = "loop"
    /\ IF i < Len(cgs)
       THEN /\ log' = Append(log, LogRecord("info", i + 1, cgs[i + 1].name))
            /\ Goto(IF args.per_ml THEN "describe_ml_segments" ELSE "describe_rna")
       ELSE /\ log' = log
            /\ Goto("filter")
    /\ UNCHANGED <<run, fs, fs0, printed, args, cgs, dist_pairs, angle_pairs, i,
                   data, row, exc, prev>>

\* lines 153-159; the inner `for i` is overwritten by enumerate
DescribeMlSegments ==
    /\ pc = "describe_ml_segments"
    /\ LET cg == cgs[i + 1]
           key == [name |-> cg.name, filename |-> cg.file]
           new_data == describe_ml_segments(cg)
       IN IF new_data.raised = "None"
          THEN /\ data' = AppendSegmentRows(data, key, new_data.data, 1)
               /\ i' = i + 1
               /\ exc' = exc
               /\ Goto("loop")
          ELSE /\ exc' = new_data.raised
               /\ Goto("except")
               /\ UNCHANGED <<data, i>>
    /\ UNCHANGED <<run, fs, fs0, printed, args, cgs, dist_pairs, angle_pairs,
                   row, log, prev>>

\* describe_rna, lines 41-45
DescribeRnaCounts ==
    /\ pc = "describe_rna"
    /\ row' = ElementCounts(cgs[i + 1])
    /\ Goto("describe_rna_multiloops")
    /\ UNCHANGED <<run, fs, fs0, printed, args, cgs, dist_pairs, angle_pairs, i,
                   data, log, exc, prev>>

\* describe_rna, lines 46-65
DescribeRnaMultiloops ==
    /\ pc = "describe_rna_multiloops"
    /\ LET r == Multiloops(cgs[i + 1], row)
       IN IF r.raised = "None"
          THEN row' = r.data /\ exc' = exc /\ Goto("describe_rna_longest")
          ELSE row' = row /\ exc' = r.raised /\ Goto("except")
    /\ UNCHANGED <<run, fs, fs0, printed, args, cgs, dist_pairs, angle_pairs, i,
                   data, log, prev>>

\* describe_rna, lines 66-69.  No run gets past them, so the statements of
\* describe_rna from line 70 on, and the appends of lines 161-165, have no action.
DescribeRnaLongest ==
    /\ pc = "describe_rna_longest"
    /\ LET r == LongestMl(cgs[i + 1], row)
       IN IF r.raised = "None"
          THEN row' = r.data /\ exc' = exc /\ Goto("describe_rna_shape")
          ELSE row' = row /\ exc' = r.raised /\ Goto("except")
    /\ UNCHANGED <<run, fs, fs0, printed, args, cgs, dist_pairs, angle_pairs, i,
                   data, log, prev>>

\* DriverExcept that logs the error and goes on with the next structure
DriverExceptSwallow ==
    /\ pc = "except"
    /\ log' = Append(log, LogRecord("error", i + 1, cgs[i + 1].name))
    /\ i' = i + 1
    /\ exc' = "None"
    /\ Goto("loop")
    /\ UNCHANGED <<run, fs, fs0, printed, args, cgs, dist_pairs, angle_pairs,
                   data, row, prev>>

\* lines 166-169: log the error and raise again
DriverExcept ==
    /\ pc = "except"
    /\ log' = Append(log, LogRecord("error", i + 1, cgs[i + 1].name))
    /\ Goto("aborted")
    /\ UNCHANGED <<run, fs, fs0, printed, args, cgs, dist_pairs, angle_pairs, i,
                   data, row, exc, prev>>

\* lines 170-174
FilterKeys ==
    /\ pc = "filter"
    /\ data' = IF TruthyTokens(args.keys) THEN KeyFilter(data, args.keys[1]) ELSE data
    /\ Goto("frame")
    /\ UNCHANGED <<run, fs, fs0, printed, args, cgs, dist_pairs, angle_pairs, i,
                   row, log, exc, prev>>

\* lines 175-176
Frame ==
    /\ pc = "frame"
    /\ exc' = FrameError(data)
    /\ Goto(IF FrameError(data) = "None" THEN "output" ELSE "aborted")
    /\ UNCHANGED <<run, fs, fs0, printed, args, cgs, dist_pairs, angle_pairs, i,
                   data, row, log, prev>>

\* lines 177-185
OutputCsv ==
    /\ pc = "output"
    /\ Truthy(args.csv)
    /\ LET r == CsvOutcome(fs, data, args.mode)
       IN /\ fs' = r.file
          /\ exc' = r.raised
          /\ Goto(IF r.raised = "None" THEN "done" ELSE "aborted")
    /\ UNCHANGED <<run, fs0, printed, args, cgs, dist_pairs, angle_pairs, i,
                   data, row, log, prev>>

\* lines 186-190
OutputPrint ==
    /\ pc = "output"
    /\ ~Truthy(args.csv)
    /\ printed' = FrameLines(data)
    /\ Goto("done")
    /\ UNCHANGED <<run, fs, fs0, args, cgs, dist_pairs, angle_pairs, i,
                   data, row, log, exc, prev>>

\* the script is started again, on the file the last run left
NextRun ==
    /\ pc \in {"done", "aborted"}
    /\ run < MaxRuns
    /\ run' = run + 1
    /\ prev' = [ok |-> pc = "done" /\ Truthy(args.csv), mode |-> args.mode,
                table |-> data]
    /\ fs0' = fs
    /\ printed' = <<>>
    /\ args' = NoArgs
    /\ cgs' = <<>>
    /\ dist_pairs' = <<>>
    /\ angle_pairs' = <<>>
    /\ pc' = "parse"
    /\ visited' = {"parse"}
    /\ i' = 0
    /\ data' = EmptyDict
    /\ row' = EmptyDict
    /\ log' = <<>>
    /\ exc' = "None"
    /\ UNCHANGED fs

Script ==
    \/ ParsePairs
    \/ Loop
    \/ DescribeMlSegments
    \/ DescribeRnaCounts
    \/ DescribeRnaMultiloops
    \/ DescribeRnaLongest
    \/ DriverExcept
    \/ FilterKeys
    \/ Frame
    \/ OutputCsv
    \/ OutputPrint

\* one run of the script on any command line
Next ==
    \/ ParseArgs(ModeArgs, KeysArgs, DistArgs, AngleArgs, CgLists(CgPool, MaxCgs))
    \/ Script

Spec == Init /\ [][Next]_vars

\* runs of the script one after the other on the same --csv path
NextRuns ==
    \/ ParseArgs({<<>>, <<"a">>, <<"o">>}, KeysArgs, {<<>>}, {<<>>}, RunInputs)
    \/ Script
    \/ NextRun

SpecRuns == Init /\ [][NextRuns]_vars

-----------------------------------------------------------------------------
(* The properties *)

Ended == pc \in {"except", "aborted"}
IsInfo(rec) == rec.level = "info"
IsRow(line) == line.kind = "row"
NRows(d) == IF "name" \in DOMAIN d THEN Len(d["name"]) ELSE 0

\* the m segments of a structure, as <<multiloop, position>>
MSegments(cg) ==
    {ls \in UNION {{<<l, k>> : k \in DOMAIN cg.mls[l].segs} : l \in DOMAIN cg.mls} :
        cg.mls[ls[1]].segs[ls[2]].elem[1] = "m"}

RECURSIVE MSegmentsUpTo(_, _)
MSegmentsUpTo(list, n) ==
    IF n = 0 THEN 0 ELSE MSegmentsUpTo(list, n - 1) + Cardinality(MSegments(list[n]))

\* the strings a comma separated list names
Listed(keys) ==
    {keys[k] : k \in {j \in DOMAIN keys :
                         /\ keys[j] # ","
                         /\ j = 1 \/ keys[j - 1] = ","
                         /\ j = Len(keys) \/ keys[j + 1] = ","}}

\* "distance_{}_{}".format(from_nt, to_nt) and "angle_{}_{}".format(elem1, elem2)
PairColumn(kind, pair) ==
    CASE kind = "distance" /\ pair = << <<"1">>, <<"20">> >> -> "distance_1_20"
      [] kind = "distance" /\ pair = << <<"2">>, <<"19">> >> -> "distance_2_19"
      [] kind = "angle" /\ pair = << <<"s0">>, <<"s1">> >> -> "angle_s0_s1"
      [] OTHER -> "?"

ShapeColumns == {"rog_fast", "rog_vres", "anisotropy_fast", "anisotropy_vres",
                 "asphericity_fast", "asphericity_vres"}

\* C1 -- The structures are taken one at a time in input order.  When the
\* extraction for the k-th structure raises, the handler logs an error for
\* that structure and raises again: from then on the run is over, no
\* structure after the k-th has been started, and the output stage (filter,
\* frame, csv or print) has not been entered, the file and stdout being as
\* they were.
C1_State ==
    /\ LET infos == SelectSeq(log, IsInfo)
       IN infos = [k \in 1..Len(infos) |-> LogRecord("info", k, cgs[k].name)]
    /\ (\E k \in DOMAIN log : log[k].level = "error") =>
          /\ pc = "aborted" /\ exc # "None"
          /\ log[Len(log)] = LogRecord("error", i + 1, cgs[i + 1].name)
          /\ Len(SelectSeq(log, IsInfo)) = i + 1
          /\ visited \cap {"filter", "frame", "output", "done"} = {}
          /\ fs = fs0 /\ printed = <<>>

C1_Step ==
    /\ pc = "except" =>
          /\ pc' = "aborted" /\ exc' = exc
          /\ log' = Append(log, LogRecord("error", i + 1, cgs[i + 1].name))
    /\ pc # "aborted"

C1_AbortOnFirstError == [](C1_State) /\ [][C1_Step]_vars

C1_Witness ==
    /\ pc = "aborted" /\ i + 1 < Len(cgs)
    /\ log[Len(log)].level = "error"

\* C2 -- Stated of the code: in whole-structure mode a structure without 3D
\* coordinates does not end the run, and its row holds NaN in the six shape
\* columns.
C2_No3dGivesNaN ==
    ~args.per_ml =>
        \A k \in 1..Len(cgs) : ~cgs[k].has3d =>
            /\ ~(i + 1 = k /\ Ended)
            /\ k <= i => \A c \in ShapeColumns :
                            c \in DOMAIN data /\ data[c][k] = "nan"

\* C3 -- Stated of the code: in whole-structure mode, with pairs requested
\* whose lookup raises (the structure has no 3D coordinates), describe_rna
\* returns the row, which holds NaN in the column of each pair.
C3_FailedPairsGiveNaN ==
    (~args.per_ml /\ dist_pairs \o angle_pairs # <<>>) =>
        \A k \in 1..Len(cgs) : ~cgs[k].has3d =>
            /\ ~(i + 1 = k /\ Ended)
            /\ k <= i =>
                  /\ \A p \in Range(dist_pairs) :
                        /\ PairColumn("distance", p) \in DOMAIN data
                        /\ data[PairColumn("distance", p)][k] = "nan"
                  /\ \A p \in Range(angle_pairs) :
                        /\ PairColumn("angle", p) \in DOMAIN data
                        /\ data[PairColumn("angle", p)][k] = "nan"

\* C4 -- Stated of the code: once the csv branch of the output stage has
\* run, it has raised and left the file as it was exactly when no mode was
\* given and the file existed, or a mode other than 'a' and 'o' was given;
\* in every other case it has written the frame to the file.
C4_RaisesBeforeWrite ==
    ("output" \in visited /\ pc \in {"done", "aborted"} /\ Truthy(args.csv)) =>
        LET given == args.mode # <<>>
            must_raise == \/ ~given /\ fs0.exists
                          \/ given /\ args.mode[1] \notin {"a", "o"}
            n == Len(fs.lines) - Len(FrameLines(data))
        IN IF must_raise
           THEN pc = "aborted" /\ fs = fs0
           ELSE /\ pc = "done" /\ fs.exists
                /\ n >= 0 /\ SubSeq(fs.lines, n + 1, Len(fs.lines)) = FrameLines(data)

\* C5 -- After two successful runs in a row on the same csv path: with
\* --mode o both times the file holds one header and the rows of the second
\* run alone; with --mode a both times the rows of the file end with the
\* rows of the first run followed by the rows of the second.
C5_TwoRuns ==
    (pc = "done" /\ Truthy(args.csv) /\ prev.ok) =>
        LET rows == SelectSeq(fs.lines, IsRow)
            both == Rows(prev.table) \o Rows(data)
            n == Len(rows) - Len(both)
        IN /\ (prev.mode = <<"o">> /\ args.mode = <<"o">>) =>
                 /\ Cardinality({k \in DOMAIN fs.lines : ~IsRow(fs.lines[k])}) = 1
                 /\ rows = Rows(data)
           /\ (prev.mode = <<"a">> /\ args.mode = <<"a">>) =>
                 /\ n >= 0
                 /\ SubSeq(rows, n + 1, Len(rows)) = both

C5_Witness ==
    /\ pc = "done" /\ Truthy(args.csv) /\ prev.ok
    /\ prev.mode = <<"a">> /\ args.mode = <<"a">>
    /\ Rows(prev.table) # <<>> /\ Rows(prev.table) # Rows(data)
    /\ fs0 # NoFile

\* C6 -- In per-segment mode the table holds, after each structure, as many
\* rows as the structures so far have m segments in their multiloops, and
\* each row carries the three flags of the description of a multiloop of its
\* structure that holds the row's segment.
C6_SegmentRows ==
    (args.per_ml /\ "filter" \notin visited /\ ~Ended) =>
        /\ NRows(data) = MSegmentsUpTo(cgs, i)
        /\ \A r \in 1..NRows(data) :
              \E k \in 1..i : \E ls \in MSegments(cgs[k]) :
                 LET loop == cgs[k].mls[ls[1]] IN
                 /\ data["name"][r] = cgs[k].name
                 /\ data["segment"][r] = loop.segs[ls[2]].elem
                 /\ data["is_external_multiloop"][r] = ("open" \in Range(loop.desc))
                 /\ data["is_pseudoknotted_multiloop"][r] = ("pseudoknot" \in Range(loop.desc))
                 /\ data["is_regular_multiloop"][r] = ("regular_multiloop" \in Range(loop.desc))

C6_Witness ==
    /\ args.per_ml /\ pc = "loop" /\ i = 2
    /\ MSegments(cgs[1]) = {} /\ Cardinality(MSegments(cgs[2])) = 4
    /\ NRows(data) = 4
    /\ \E r \in 1..4 : data["is_external_multiloop"][r]
    /\ \E r \in 1..4 : data["is_regular_multiloop"][r]

\* C7 -- With --keys given, the filter step leaves exactly the columns that
\* are listed or are the name column, among the columns that were produced,
\* and leaves those columns as they were.
C7_KeyFilter ==
    [][(pc = "filter" /\ TruthyTokens(args.keys)) =>
          /\ DOMAIN data' = (Listed(args.keys[1]) \cup {"name"}) \cap DOMAIN data
          /\ \A c \in DOMAIN data' : data'[c] = data[c]]_vars

C7_Witness ==
    /\ pc = "frame" /\ TruthyTokens(args.keys)
    /\ "filename" \notin Listed(args.keys[1])
    /\ DOMAIN data = {"name", "segment", "is_regular_multiloop"}
    /\ NRows(data) > 0

\* C8 -- Stated of the code: once describe_rna is past the statement that
\* sets longest_ml, the row holds the number of multiloops as total_mls and,
\* as longest_ml, 0 when there is no multiloop and else the largest number of
\* segments of a multiloop.
C8_LongestMl ==
    ("describe_rna_longest" \in visited /\ pc # "describe_rna_longest") =>
        LET mls == cgs[i + 1].mls IN
        /\ "total_mls" \in DOMAIN row /\ row["total_mls"] = Len(mls)
        /\ "longest_ml" \in DOMAIN row
        /\ IF mls = <<>> THEN row["longest_ml"] = 0
           ELSE /\ \E k \in DOMAIN mls : row["longest_ml"] = Len(mls[k].segs)
                /\ \A k \in DOMAIN mls : row["longest_ml"] >= Len(mls[k].segs)

C10_CountsAddUp ==
    "num_cg_elems" \in DOMAIN row =>
        /\ {"num_s", "num_m", "num_i", "num_f", "num_t", "num_h"} \subseteq DOMAIN row
        /\ row["num_s"] + row["num_m"] + row["num_i"] + row["num_f"]
              + row["num_t"] + row["num_h"] = row["num_cg_elems"]

C10_Witness ==
    /\ pc = "describe_rna_multiloops"
    /\ row["num_cg_elems"] = 13
    /\ row["num_m"] = 4 /\ row["num_h"] = 2 /\ row["num_i"] = 1

====
